---- MODULE Spec2Model ----
(***************************************************************************)
(* Model of the ponloe user directory (functions/index.js): the six Cloud  *)
(* Functions that keep the Firebase Auth account registry (Identity Store) *)
(* and the Firestore "users" collection (Profile Store) in step.           *)
(*                                                                         *)
(* Every handler is an async function: the code between two awaits runs    *)
(* atomically, and each awaited store call lands as one atomic write.  A   *)
(* handler is therefore one action per awaited store call: the first       *)
(* action runs the handler from its entry through its first store call,    *)
(* each further action runs from one store call's return through the next. *)
(***************************************************************************)
EXTENDS Integers, Sequences, FiniteSets, TLC

VARIABLES
    accounts,      \* Identity Store: uid -> account record
    profiles,      \* Profile Store: collection "users", uid -> document or NoDoc
    events,        \* lifecycle events of the Identity Store, per uid
    redelivered,   \* number of duplicate event deliveries so far
    calls,         \* function instances: slot -> idle / running / done
    registration,  \* sw.js: the service worker's lifecycle state
    cacheStorage,  \* sw.js: Cache Storage of the origin, cache name -> cache
    fetchEvent     \* sw.js: the last fetch event the worker has answered

\* the state of the Cloud Functions, and the state of the service worker
functions == <<accounts, profiles, events, redelivered, calls>>
sw == <<registration, cacheStorage, fetchEvent>>
vars == <<accounts, profiles, events, redelivered, calls,
          registration, cacheStorage, fetchEvent>>

----------------------------------------------------------------------------
(* Bounds *)

MaxClock == 2
MaxRedeliver == 1

(* Universe *)

Ids == {"u1", "u2"}
Slots == {"a", "b"}
Roles == {"admin", "editor", "viewer"}
Undefined == "undefined"

\* the user record the Identity Store hands to the lifecycle triggers of u:
\* one account signs up with every descriptive field, the other with none
UserRecord(u) ==
    IF u = "u1"
    THEN [uid |-> u, displayName |-> "Ann", email |-> "ann@x.com", photoURL |-> "ann.png"]
    ELSE [uid |-> u, displayName |-> Undefined, email |-> "new@x.com", photoURL |-> Undefined]

\* call contexts: unauthenticated, or a token whose role claim is r
Contexts ==
    { [authenticated |-> FALSE] } \cup
    { [authenticated |-> TRUE, auth |-> [token |-> [role |-> r]]] :
        r \in Roles \cup {Undefined} }

UidInputs == Ids \cup {""}
Times == 1..MaxClock
RoleInputs == Roles \cup {"superuser"}

\* payloads: a field that is absent from the record is undefined in JS
NoFields == << >>
SetUserRoleData ==
    { [uid |-> u, newRole |-> r] : u \in UidInputs, r \in RoleInputs } \cup
    { [uid |-> u] : u \in UidInputs } \cup
    { [newRole |-> r] : r \in RoleInputs } \cup
    { NoFields }
ToggleData ==
    { [uid |-> u, disabled |-> d] : u \in UidInputs, d \in BOOLEAN } \cup
    { [uid |-> u] : u \in UidInputs } \cup
    { [disabled |-> d] : d \in BOOLEAN } \cup
    { NoFields }
DeleteData == { [uid |-> u] : u \in UidInputs } \cup { NoFields }
GetAllData == { NoFields }

\* outcome of an awaited store call that the stores themselves do not decide
Faults == {"none", "UNAVAILABLE"}

Has(data, f) == f \in DOMAIN data
Get(data, f) == IF f \in DOMAIN data THEN data[f] ELSE Undefined

----------------------------------------------------------------------------
(* State *)

NoDoc == [exists |-> FALSE]
NoAccount == [state |-> "never", role |-> Undefined, disabled |-> FALSE]
Deleted == [state |-> "deleted", role |-> Undefined, disabled |-> FALSE]
NoEvents == [created |-> "none", deleted |-> "none"]
Idle == [pc |-> "idle"]
Null == "null"

\* sw.js: the cache the worker fills, the cache an earlier version of the
\* worker has left behind, and the URLs pages request
CACHE_NAME == "ponloe-pwa-cache-v1"
OldCacheName == "ponloe-pwa-cache-v0"
CacheNames == <<OldCacheName, CACHE_NAME>>
urlsToCache ==
    { "/", "/offline.html",
      "https://cdn.jsdelivr.net/gh/icenterofficial/ponloe/main/manifest.json",
      "https://your-blog-theme.css", "https://your-logo.png" }
Urls == urlsToCache \cup {"/post.html", "/about.html"}
Requests == [url : Urls, method : {"GET", "POST"}]
NoCache == [exists |-> FALSE]
NoResponse == [source |-> Undefined]
NoFetch == [handled |-> FALSE]

\* the Cloud Functions are deployed, nothing has happened yet
Deployed ==
    /\ accounts = [u \in Ids |-> NoAccount]
    /\ profiles = [u \in Ids |-> NoDoc]
    /\ events = [u \in Ids |-> NoEvents]
    /\ redelivered = 0
    /\ calls = [s \in Slots |-> Idle]

\* the worker script is registered, nothing has been cached yet
Init ==
    /\ Deployed
    /\ registration = "parsed"
    /\ cacheStorage = [n \in {OldCacheName, CACHE_NAME} |-> NoCache]
    /\ fetchEvent = NoFetch

----------------------------------------------------------------------------
(* Replies *)

\* a value returned by the handler
Ok(result) == [code |-> "ok", result |-> result]
\* new functions.https.HttpsError(code, message)
HttpsError(code, message) == [code |-> code, message |-> message]
\* an exception that is no HttpsError leaves an onCall handler as INTERNAL
Uncaught == [code |-> "internal", message |-> "INTERNAL"]
\* a lifecycle handler that throws: logged by the platform, nobody to answer
Thrown(message) == [code |-> "error", message |-> message]
\* the checks let the call through
Admitted == [code |-> "admitted"]

\* what an instance was invoked with
Call(context, data) == [context |-> context, data |-> data]
Event(user) == [user |-> user]

\* an instance suspended at an await, and one that has completed
Running(op, pc, request) == [pc |-> pc, op |-> op, request |-> request]
Done(op, request, reply) == [pc |-> "done", op |-> op, request |-> request, reply |-> reply]

Await(s, op, pc, request) == calls' = [calls EXCEPT ![s] = Running(op, pc, request)]
Finish(s, op, request, reply) == calls' = [calls EXCEPT ![s] = Done(op, request, reply)]
At(s, op, pc) == calls[s].pc = pc /\ calls[s].op = op

----------------------------------------------------------------------------
(* Store calls.  Each yields the error it is rejected with ("none" when it *)
(* lands) and the store after it.  fault is what the store answers when    *)
(* nothing is wrong with the call itself.                                  *)

\* an object literal: the properties named in keys, those whose value is
\* undefined being absent from the record
Literal(keys, fields) == [ keys |-> keys, fields |-> fields ]
Pick(data, keys) == [ f \in keys \cap DOMAIN data |-> data[f] ]

AuthError(uid, fault) ==
    IF uid \notin Ids THEN "auth/invalid-uid"
    ELSE IF accounts[uid].state # "active" THEN "auth/user-not-found"
    ELSE fault

\* admin.auth().setCustomUserClaims(uid, claims): replaces the claims
SetCustomUserClaims(uid, claims, fault) ==
    LET err == AuthError(uid, fault) IN
    [ error |-> err,
      accounts |-> IF err = "none"
                   THEN [accounts EXCEPT ![uid].role = claims.role]
                   ELSE accounts ]

\* mutant: the status is flipped, not set
UpdateUser_flip(uid, properties, fault) ==
    LET err == AuthError(uid, fault) IN
    [ error |-> err,
      accounts |-> IF err = "none" /\ "disabled" \in DOMAIN properties.fields
                   THEN [accounts EXCEPT ![uid].disabled = ~@]
                   ELSE accounts ]

\* admin.auth().updateUser(uid, properties): an undefined property is left
\* as it is
UpdateUser(uid, properties, fault) ==
    LET err == AuthError(uid, fault) IN
    [ error |-> err,
      accounts |-> IF err = "none" /\ "disabled" \in DOMAIN properties.fields
                   THEN [accounts EXCEPT ![uid].disabled = properties.fields.disabled]
                   ELSE accounts ]

\* admin.auth().deleteUser(uid): the account is gone for good and its
\* deleted event is emitted
AuthDeleteUser(uid, fault) ==
    LET err == AuthError(uid, fault) IN
    [ error |-> err,
      accounts |-> IF err = "none" THEN [accounts EXCEPT ![uid] = Deleted] ELSE accounts,
      events |-> IF err = "none"
                 THEN [events EXCEPT ![uid].deleted = "pending"]
                 ELSE events ]

\* DocumentReference.set(doc): creates the document or replaces it
DocSet(uid, doc, fault) ==
    [ error |-> fault,
      profiles |-> IF fault = "none" THEN [profiles EXCEPT ![uid] = doc] ELSE profiles ]

\* mutant: set(fields, { merge: true }), which creates a missing document
DocUpdate_merge(uid, literal, fault) ==
    LET err == IF literal.keys # DOMAIN literal.fields THEN "invalid-data"
               ELSE IF uid \notin Ids THEN "invalid-path"
               ELSE fault
        old == IF profiles[uid].exists THEN profiles[uid]
               ELSE [ exists |-> TRUE, displayName |-> Null, email |-> Null,
                      photoURL |-> Null, createdAt |-> MaxClock, role |-> "viewer",
                      disabled |-> FALSE ] IN
    [ error |-> err,
      profiles |-> IF err = "none"
                   THEN [profiles EXCEPT ![uid] =
                            LET d == IF "role" \in literal.keys
                                     THEN [old EXCEPT !.role = literal.fields.role]
                                     ELSE old IN
                            IF "disabled" \in literal.keys
                            THEN [d EXCEPT !.disabled = literal.fields.disabled]
                            ELSE d]
                   ELSE profiles ]

\* DocumentReference.update(fields): the document must exist, and no value
\* may be undefined
DocUpdate(uid, literal, fault) ==
    LET err == IF literal.keys # DOMAIN literal.fields THEN "invalid-data"
               ELSE IF uid \notin Ids THEN "invalid-path"
               ELSE IF ~profiles[uid].exists THEN "NOT_FOUND"
               ELSE fault IN
    [ error |-> err,
      profiles |-> IF err = "none"
                   THEN [profiles EXCEPT ![uid] =
                            LET d == IF "role" \in literal.keys
                                     THEN [@ EXCEPT !.role = literal.fields.role]
                                     ELSE @ IN
                            IF "disabled" \in literal.keys
                            THEN [d EXCEPT !.disabled = literal.fields.disabled]
                            ELSE d]
                   ELSE profiles ]

\* mutant: a delete that rejects a missing document
DocDelete_mustExist(uid, fault) ==
    LET err == IF ~profiles[uid].exists THEN "NOT_FOUND" ELSE fault IN
    [ error |-> err,
      profiles |-> IF err = "none" THEN [profiles EXCEPT ![uid] = NoDoc] ELSE profiles ]

\* DocumentReference.delete(): deleting a document that does not exist
\* succeeds
DocDelete(uid, fault) ==
    [ error |-> fault,
      profiles |-> IF fault = "none" THEN [profiles EXCEPT ![uid] = NoDoc] ELSE profiles ]

\* FieldValue.serverTimestamp(): the store's time when the write commits,
\* never before a time it has already stamped on a document it holds
ServerTimestamps ==
    { t \in Times : \A u \in Ids : profiles[u].exists => profiles[u].createdAt <= t }

\* mutant: orderBy("createdAt"), which is ascending
QueryResults_asc ==
    LET docs == {u \in Ids : profiles[u].exists}
        n == Cardinality(docs) IN
    { q \in [1..n -> docs] :
        /\ \A i, j \in 1..n : i # j => q[i] # q[j]
        /\ \A i, j \in 1..n :
              i < j => profiles[q[i]].createdAt <= profiles[q[j]].createdAt }

\* collection("users").orderBy("createdAt", "desc").get(): every document,
\* newest first, documents of equal createdAt in an order the store picks
QueryResults ==
    LET docs == {u \in Ids : profiles[u].exists}
        n == Cardinality(docs) IN
    { q \in [1..n -> docs] :
        /\ \A i, j \in 1..n : i # j => q[i] # q[j]
        /\ \A i, j \in 1..n :
              i < j => profiles[q[i]].createdAt >= profiles[q[j]].createdAt }

----------------------------------------------------------------------------
(* Identity Store: a sign-up creates the account and emits its created    *)
(* event; the account starts enabled and without custom claims            *)

SignUp(u) ==
    /\ accounts[u].state = "never"
    /\ accounts' = [accounts EXCEPT ![u] =
                        [state |-> "active", role |-> Undefined, disabled |-> FALSE]]
    /\ events' = [events EXCEPT ![u] = [created |-> "pending", deleted |-> "none"]]
    /\ UNCHANGED <<profiles, redelivered, calls, sw>>

\* the platform delivers events at least once
Redeliver(u, type) ==
    /\ redelivered < MaxRedeliver
    /\ events[u][type] = "handled"
    /\ events' = [events EXCEPT ![u][type] = "pending"]
    /\ redelivered' = redelivered + 1
    /\ UNCHANGED <<accounts, profiles, calls, sw>>

\* the response (or the log line) has left the function instance
Return(s) ==
    /\ calls[s].pc = "done"
    /\ calls' = [calls EXCEPT ![s] = Idle]
    /\ UNCHANGED <<accounts, profiles, events, redelivered, sw>>

----------------------------------------------------------------------------
(* 1. onUserCreate *)

\* mutant: new accounts start as editors
userRole_editor == "editor"

userRole == "viewer"

NewUserDoc(user, now) ==
    [ exists |-> TRUE,
      displayName |-> IF user.displayName # Undefined THEN user.displayName
                      ELSE "New User",
      email |-> user.email,
      photoURL |-> IF user.photoURL # Undefined THEN user.photoURL ELSE Null,
      createdAt |-> now,
      role |-> userRole,
      disabled |-> FALSE ]

\* mutant: the claim is written by the first store call
onUserCreate_claimFirst(s, u, now, fault) ==
    /\ calls[s].pc = "idle"
    /\ events[u].created = "pending"
    /\ events' = [events EXCEPT ![u].created = "handled"]
    /\ LET user == UserRecord(u)
           claim == SetCustomUserClaims(user.uid, [role |-> userRole], fault) IN
       /\ accounts' = claim.accounts
       /\ IF claim.error = "none"
          THEN Await(s, "onUserCreate", "setCustomUserClaims", Event(user))
          ELSE Finish(s, "onUserCreate", Event(user), Thrown(claim.error))
    /\ UNCHANGED <<profiles, redelivered, sw>>

\* the created event of u reaches an instance:
\* await userDocRef.set({...})
onUserCreate(s, u, now, fault) ==
    /\ calls[s].pc = "idle"
    /\ events[u].created = "pending"
    /\ events' = [events EXCEPT ![u].created = "handled"]
    /\ LET user == UserRecord(u)
           set == DocSet(user.uid, NewUserDoc(user, now), fault) IN
       /\ profiles' = set.profiles
       /\ IF set.error = "none"
          THEN Await(s, "onUserCreate", "setCustomUserClaims", Event(user))
          ELSE Finish(s, "onUserCreate", Event(user), Thrown(set.error))
    /\ UNCHANGED <<accounts, redelivered, sw>>

\* await admin.auth().setCustomUserClaims(user.uid, { role: userRole })
onUserCreate_setCustomUserClaims(s, fault) ==
    /\ At(s, "onUserCreate", "setCustomUserClaims")
    /\ LET user == calls[s].request.user
           claim == SetCustomUserClaims(user.uid, [role |-> userRole], fault) IN
       /\ accounts' = claim.accounts
       /\ Finish(s, "onUserCreate", Event(user),
                 IF claim.error = "none" THEN Ok(Null) ELSE Thrown(claim.error))
    /\ UNCHANGED <<profiles, events, redelivered, sw>>

----------------------------------------------------------------------------
(* The gate every callable starts with:                                    *)
(* if (context.auth.token.role !== "admin") throw permission-denied        *)

\* mutant: any role of the closed set passes the gate
IsAdmin_anyRole(context) == context.auth.token.role \in Roles

IsAdmin(context) == context.auth.token.role = "admin"

Gate(context, message) ==
    \* reading .token of an undefined context.auth is a TypeError
    IF ~context.authenticated THEN Uncaught
    ELSE IF ~IsAdmin(context) THEN HttpsError("permission-denied", message)
    ELSE Admitted

----------------------------------------------------------------------------
(* 2. setUserRole *)

\* mutant: newRole only has to be given
ValidSetUserRole_anyRole(data) ==
    /\ Get(data, "uid") \notin {Undefined, ""}
    /\ Has(data, "newRole")

ValidSetUserRole(data) ==
    /\ Get(data, "uid") \notin {Undefined, ""}
    /\ Get(data, "newRole") \in {"admin", "editor", "viewer"}

\* mutant: the payload is validated before the caller is
SetUserRoleChecks_validateFirst(context, data) ==
    IF ~ValidSetUserRole(data)
    THEN HttpsError("invalid-argument",
                    "The function must be called with a 'uid' and a valid 'newRole'.")
    ELSE Gate(context, "You must be an admin to change user roles.")

\* the checks before the try block, in the order the handler makes them
SetUserRoleChecks(context, data) ==
    LET gate == Gate(context, "You must be an admin to change user roles.") IN
    IF gate # Admitted THEN gate
    ELSE IF ~ValidSetUserRole(data)
    THEN HttpsError("invalid-argument",
                    "The function must be called with a 'uid' and a valid 'newRole'.")
    ELSE Admitted

\* mutant: the document is written the default role, not the new one
RoleFields_default(data) == Literal({"role"}, [role |-> userRole])

\* { role: newRole }, the claims and the document fields written
RoleClaims(data) == [role |-> data.newRole]
RoleFields(data) == Literal({"role"}, [role |-> data.newRole])

\* entry and checks, then
\* await admin.auth().setCustomUserClaims(uid, { role: newRole })
setUserRole(s, context, data, fault) ==
    /\ calls[s].pc = "idle"
    /\ LET checks == SetUserRoleChecks(context, data) IN
       IF checks # Admitted
       THEN /\ Finish(s, "setUserRole", Call(context, data), checks)
            /\ UNCHANGED accounts
       ELSE LET claim == SetCustomUserClaims(data.uid, RoleClaims(data), fault) IN
            /\ accounts' = claim.accounts
            /\ IF claim.error = "none"
               THEN Await(s, "setUserRole", "update", Call(context, data))
               ELSE Finish(s, "setUserRole", Call(context, data),
                           HttpsError("internal", "Unable to update user role."))
    /\ UNCHANGED <<profiles, events, redelivered, sw>>

\* mutant: a failed document update takes the claim back
setUserRole_update_rollback(s, fault) ==
    /\ At(s, "setUserRole", "update")
    /\ LET data == calls[s].request.data
           update == DocUpdate(data.uid, RoleFields(data), fault) IN
       /\ profiles' = update.profiles
       /\ accounts' = IF update.error = "none" THEN accounts
                      ELSE [accounts EXCEPT ![data.uid].role = Undefined]
       /\ Finish(s, "setUserRole", calls[s].request,
                 IF update.error = "none"
                 THEN Ok([message |-> <<"Successfully updated role to ", data.newRole,
                                        " for user ", data.uid, ".">>])
                 ELSE HttpsError("internal", "Unable to update user role."))
    /\ UNCHANGED <<events, redelivered, sw>>

\* await db.collection("users").doc(uid).update({ role: newRole })
setUserRole_update(s, fault) ==
    /\ At(s, "setUserRole", "update")
    /\ LET data == calls[s].request.data
           update == DocUpdate(data.uid, RoleFields(data), fault) IN
       /\ profiles' = update.profiles
       /\ Finish(s, "setUserRole", calls[s].request,
                 IF update.error = "none"
                 THEN Ok([message |-> <<"Successfully updated role to ", data.newRole,
                                        " for user ", data.uid, ".">>])
                 ELSE HttpsError("internal", "Unable to update user role."))
    /\ UNCHANGED <<accounts, events, redelivered, sw>>

----------------------------------------------------------------------------
(* 3. toggleUserStatus *)

\* mutant: enabled is written where disabled is meant
StatusFields_negated(data) ==
    Literal({"disabled"}, [f \in {"disabled"} \cap DOMAIN data |-> ~data[f]])

\* { disabled }, the account properties and the document fields written
StatusFields(data) == Literal({"disabled"}, Pick(data, {"disabled"}))

\* entry and gate, then
\* await admin.auth().updateUser(uid, { disabled })
toggleUserStatus(s, context, data, fault) ==
    /\ calls[s].pc = "idle"
    /\ LET gate == Gate(context, "Only admins can change user status.") IN
       IF gate # Admitted
       THEN /\ Finish(s, "toggleUserStatus", Call(context, data), gate)
            /\ UNCHANGED accounts
       ELSE LET update == UpdateUser(Get(data, "uid"), StatusFields(data), fault) IN
            /\ accounts' = update.accounts
            /\ IF update.error = "none"
               THEN Await(s, "toggleUserStatus", "update", Call(context, data))
               ELSE Finish(s, "toggleUserStatus", Call(context, data),
                           HttpsError("internal", update.error))
    /\ UNCHANGED <<profiles, events, redelivered, sw>>

\* await db.collection("users").doc(uid).update({ disabled })
toggleUserStatus_update(s, fault) ==
    /\ At(s, "toggleUserStatus", "update")
    /\ LET data == calls[s].request.data
           uid == Get(data, "uid")
           update == DocUpdate(uid, StatusFields(data), fault) IN
       /\ profiles' = update.profiles
       /\ Finish(s, "toggleUserStatus", calls[s].request,
                 IF update.error = "none"
                 THEN Ok([message |-> <<"User ", uid, " status updated successfully.">>])
                 ELSE HttpsError("internal", update.error))
    /\ UNCHANGED <<accounts, events, redelivered, sw>>

----------------------------------------------------------------------------
(* 4. deleteUser *)

\* entry and gate, then
\* await admin.auth().deleteUser(uid)
deleteUser(s, context, data, fault) ==
    /\ calls[s].pc = "idle"
    /\ LET gate == Gate(context, "Only admins can delete users.") IN
       IF gate # Admitted
       THEN /\ Finish(s, "deleteUser", Call(context, data), gate)
            /\ UNCHANGED <<accounts, events>>
       ELSE LET uid == Get(data, "uid")
                delete == AuthDeleteUser(uid, fault) IN
            /\ accounts' = delete.accounts
            /\ events' = delete.events
            /\ Finish(s, "deleteUser", Call(context, data),
                      IF delete.error = "none"
                      THEN Ok([message |-> <<"Successfully deleted user ", uid, ".">>])
                      ELSE HttpsError("internal", delete.error))
    /\ UNCHANGED <<profiles, redelivered, sw>>

----------------------------------------------------------------------------
(* 5. onUserDelete *)

\* the deleted event of u reaches an instance:
\* await userDocRef.delete()
onUserDelete(s, u, fault) ==
    /\ calls[s].pc = "idle"
    /\ events[u].deleted = "pending"
    /\ events' = [events EXCEPT ![u].deleted = "handled"]
    /\ LET user == UserRecord(u)
           delete == DocDelete(user.uid, fault) IN
       /\ profiles' = delete.profiles
       /\ Finish(s, "onUserDelete", Event(user),
                 IF delete.error = "none" THEN Ok(Null) ELSE Thrown(delete.error))
    /\ UNCHANGED <<accounts, redelivered, sw>>

----------------------------------------------------------------------------
(* 6. getAllUsers *)

\* Timestamp.toDate().toISOString()
ToISOString(t) == "1970-01-01T00:00:0" \o ToString(t) \o ".000Z"

\* doc => ({ uid: doc.id, ...doc.data(), createdAt: ... })
UserEntry(uid, userData) ==
    [ uid |-> uid,
      displayName |-> userData.displayName,
      email |-> userData.email,
      photoURL |-> userData.photoURL,
      role |-> userData.role,
      disabled |-> userData.disabled,
      createdAt |-> ToISOString(userData.createdAt) ]

\* entry and gate, then
\* await db.collection("users").orderBy("createdAt", "desc").get()
getAllUsers(s, context, data, fault) ==
    /\ calls[s].pc = "idle"
    /\ LET gate == Gate(context, "You must be an admin to view all users.") IN
       IF gate # Admitted
       THEN Finish(s, "getAllUsers", Call(context, data), gate)
       ELSE IF fault = "none"
       THEN \E q \in QueryResults :
              Finish(s, "getAllUsers", Call(context, data),
                     Ok([users |-> [i \in DOMAIN q |-> UserEntry(q[i], profiles[q[i]])]]))
       ELSE Finish(s, "getAllUsers", Call(context, data),
                   HttpsError("internal", "Unable to retrieve users."))
    /\ UNCHANGED <<accounts, profiles, events, redelivered, sw>>

----------------------------------------------------------------------------
(* sw.js: the service worker *)

\* caches.match(request): the first cache, in the order of their creation,
\* that holds an entry for the URL of a GET request
CachesMatch(request) ==
    LET holding == { i \in DOMAIN CacheNames :
                        /\ cacheStorage[CacheNames[i]].exists
                        /\ request.method = "GET"
                        /\ request.url \in cacheStorage[CacheNames[i]].keys } IN
    IF holding = {} THEN NoResponse
    ELSE LET first == CHOOSE i \in holding : \A j \in holding : i <= j IN
         [source |-> "cache", cacheName |-> CacheNames[first], url |-> request.url]

\* fetch(request) when the network answers
Fetch(request) == [source |-> "network", url |-> request.url, method |-> request.method]

\* the answer the worker gives to a fetch event
Answered(request, network, response) ==
    [handled |-> TRUE, request |-> request, network |-> network, response |-> response]

\* 'install': caches.open(CACHE_NAME) creates the cache if there is none
install ==
    /\ registration = "parsed"
    /\ registration' = "installing"
    /\ cacheStorage' = IF cacheStorage[CACHE_NAME].exists THEN cacheStorage
                       ELSE [cacheStorage EXCEPT ![CACHE_NAME] =
                                [exists |-> TRUE, keys |-> {}]]
    /\ UNCHANGED <<functions, fetchEvent>>

\* cache.addAll(urlsToCache): every URL is fetched and stored, or none is;
\* a worker whose install fails is discarded
install_addAll(online) ==
    /\ registration = "installing"
    /\ IF online
       THEN /\ cacheStorage' = [cacheStorage EXCEPT ![CACHE_NAME].keys = @ \cup urlsToCache]
            /\ registration' = "installed"
       ELSE /\ cacheStorage' = cacheStorage
            /\ registration' = "redundant"
    /\ UNCHANGED <<functions, fetchEvent>>

\* 'activate': every cache whose name is not CACHE_NAME is deleted
activate ==
    /\ registration = "installed"
    /\ registration' = "activated"
    /\ cacheStorage' = [n \in DOMAIN cacheStorage |->
                            IF n # CACHE_NAME THEN NoCache ELSE cacheStorage[n]]
    /\ UNCHANGED <<functions, fetchEvent>>

\* mutant: the network is asked first, the cache when it fails
fetch_networkFirst(request, online) ==
    /\ registration = "activated"
    /\ fetchEvent' =
          IF online THEN Answered(request, "answered", Fetch(request))
          ELSE IF CachesMatch(request) # NoResponse
          THEN Answered(request, "failed", CachesMatch(request))
          ELSE Answered(request, "failed",
                        CachesMatch([url |-> "/offline.html", method |-> "GET"]))
    /\ UNCHANGED <<functions, registration, cacheStorage>>

\* 'fetch': the active worker answers a request of a page
fetch(request, online) ==
    /\ registration = "activated"
    /\ fetchEvent' =
          LET response == CachesMatch(request) IN
          IF response # NoResponse THEN Answered(request, "none", response)
          ELSE IF online THEN Answered(request, "answered", Fetch(request))
          ELSE Answered(request, "failed",
                        CachesMatch([url |-> "/offline.html", method |-> "GET"]))
    /\ UNCHANGED <<functions, registration, cacheStorage>>

----------------------------------------------------------------------------
(* The platform *)

\* the Identity Store, with the accounts that may sign up
Environment(signups) ==
    \/ \E u \in signups : SignUp(u)
    \/ \E u \in Ids, type \in {"created", "deleted"} : Redeliver(u, type)

\* an event or a call reaches an idle instance s
Invoke(s, contexts, faults) ==
    \E fault \in faults :
        \/ \E u \in Ids, now \in ServerTimestamps : onUserCreate(s, u, now, fault)
        \/ \E u \in Ids : onUserDelete(s, u, fault)
        \/ \E context \in contexts, data \in SetUserRoleData :
                setUserRole(s, context, data, fault)
        \/ \E context \in contexts, data \in ToggleData :
                toggleUserStatus(s, context, data, fault)
        \/ \E context \in contexts, data \in DeleteData :
                deleteUser(s, context, data, fault)
        \/ \E context \in contexts, data \in GetAllData :
                getAllUsers(s, context, data, fault)

\* the store call instance s awaits returns
Step(s, faults) ==
    \E fault \in faults :
        \/ onUserCreate_setCustomUserClaims(s, fault)
        \/ setUserRole_update(s, fault)
        \/ toggleUserStatus_update(s, fault)

----------------------------------------------------------------------------
(* Spec: one account, "u1", signs up; "u2" is a uid no account ever had.   *)
(* One function instance, "a", serves one event or call after the other,   *)
(* in any order, under every caller context and payload; an event is       *)
(* delivered whenever the platform gets to it; any store call may fail.    *)

Next ==
    \/ Environment({"u1"})
    \/ Invoke("a", Contexts, Faults)
    \/ Step("a", Faults)
    \/ Return("a")

Spec == Init /\ [][Next]_vars

----------------------------------------------------------------------------
(* FairSpec: Spec with stores that answer every call, a platform that      *)
(* delivers every lifecycle event it holds, and instances that run to      *)
(* completion.                                                             *)

FairNext ==
    \/ Environment({"u1"})
    \/ Invoke("a", Contexts, {"none"})
    \/ Step("a", {"none"})
    \/ Return("a")

Fairness ==
    /\ SF_vars(\E u \in Ids, now \in ServerTimestamps : onUserCreate("a", u, now, "none"))
    /\ SF_vars(\E u \in Ids : onUserDelete("a", u, "none"))
    /\ WF_vars(Step("a", {"none"}))
    /\ WF_vars(Return("a"))

FairSpec == Init /\ [][FairNext]_vars /\ Fairness

----------------------------------------------------------------------------
(* RetrySpec: Spec with a second instance, "b", that serves nothing but    *)
(* retries: it takes the call or the re-delivered deleted event that       *)
(* instance "a" has just completed, with the same arguments, against       *)
(* stores that answer.  "a" keeps its completed invocation until "b" is    *)
(* idle, so nothing else touches the stores between an invocation and its  *)
(* retry.                                                                  *)

\* the invocation that instance first has completed reaches instance s again
Replay(s, first, faults) ==
    /\ calls[first].pc = "done"
    /\ \E fault \in faults :
        LET op == calls[first].op
            request == calls[first].request IN
        \/ op = "setUserRole"
              /\ setUserRole(s, request.context, request.data, fault)
        \/ op = "toggleUserStatus"
              /\ toggleUserStatus(s, request.context, request.data, fault)
        \/ op = "onUserDelete"
              /\ onUserDelete(s, request.user.uid, fault)

RetryNext ==
    \/ Environment({"u1"})
    \/ Invoke("a", Contexts, Faults)
    \/ Step("a", Faults)
    \/ calls["b"].pc = "idle" /\ Return("a")
    \/ Replay("b", "a", {"none"})
    \/ Step("b", {"none"})
    \/ Return("b")

RetrySpec == Init /\ [][RetryNext]_vars

----------------------------------------------------------------------------
(* ListSpec: both accounts sign up and may be deleted, so that the         *)
(* collection holds up to two documents, written at equal or at different  *)
(* times; admins list them and delete accounts.  Only the listing query    *)
(* may fail.                                                               *)

Admins == { context \in Contexts : context.authenticated /\ IsAdmin(context) }

ListNext ==
    \/ Environment(Ids)
    \/ \E u \in Ids, now \in ServerTimestamps : onUserCreate("a", u, now, "none")
    \/ onUserCreate_setCustomUserClaims("a", "none")
    \/ \E context \in Admins, data \in DeleteData : deleteUser("a", context, data, "none")
    \/ \E u \in Ids : onUserDelete("a", u, "none")
    \/ \E context \in Admins, data \in GetAllData, fault \in Faults :
            getAllUsers("a", context, data, fault)
    \/ Return("a")

ListSpec == Init /\ [][ListNext]_vars

----------------------------------------------------------------------------
(* RaceSpec: two function instances serve events and admin calls at the    *)
(* same time, their store calls interleaving in every order; the stores    *)
(* answer every call.                                                      *)

RaceNext ==
    \/ Environment({"u1"})
    \/ \E s \in Slots : Invoke(s, Admins, {"none"})
    \/ \E s \in Slots : Step(s, {"none"})
    \/ \E s \in Slots : Return(s)

RaceSpec == Init /\ [][RaceNext]_vars

----------------------------------------------------------------------------
(* RoleRaceSpec: admins call setUserRole on two instances at the same      *)
(* time.  Nothing else overlaps the calls: the created event is handled    *)
(* from start to end while no call is in progress, and no call starts      *)
(* while it is being handled; no account is deleted; the stores answer     *)
(* every call.                                                             *)

RoleRaceNext ==
    \/ Environment({"u1"})
    \/ \E now \in ServerTimestamps :
          /\ \A t \in Slots : calls[t].pc \in {"idle", "done"}
          /\ onUserCreate("a", "u1", now, "none")
    \/ onUserCreate_setCustomUserClaims("a", "none")
    \/ \E s \in Slots, context \in Admins, data \in SetUserRoleData :
          /\ \A t \in Slots : calls[t].pc \in {"idle", "done", "update"}
          /\ setUserRole(s, context, data, "none")
    \/ \E s \in Slots : setUserRole_update(s, "none")
    \/ \E s \in Slots : Return(s)

RoleRaceSpec == Init /\ [][RoleRaceNext]_vars

----------------------------------------------------------------------------
(* WorkerSpec: the service worker, from its registration on.  Cache        *)
(* Storage starts with whatever an earlier version of the worker left: no  *)
(* cache, or caches holding some pages; the network answers or fails each  *)
(* time it is asked.                                                       *)

OldContents == SUBSET {"/", "/post.html", "/about.html"}

WorkerInit ==
    /\ Deployed
    /\ registration = "parsed"
    /\ cacheStorage \in [ {OldCacheName, CACHE_NAME} ->
                            {NoCache} \cup { [exists |-> TRUE, keys |-> k] : k \in OldContents } ]
    /\ fetchEvent = NoFetch

WorkerNext ==
    \/ install
    \/ \E online \in BOOLEAN : install_addAll(online)
    \/ activate
    \/ \E request \in Requests, online \in BOOLEAN : fetch(request, online)

WorkerSpec == WorkerInit /\ [][WorkerNext]_vars

----------------------------------------------------------------------------
(* Properties *)

Callables == {"setUserRole", "toggleUserStatus", "deleteUser", "getAllUsers"}

\* instance s takes its call or event in this step
Enters(s) == calls[s].pc = "idle" /\ calls'[s].pc # "idle"
\* instance s completes in this step
Completes(s) == calls[s].pc # "done" /\ calls'[s].pc = "done"
\* the caller's token carries claims whose role is not "admin"
NotAdminRole(context) == context.authenticated /\ context.auth.token.role # "admin"
AdminRole(context) == context.authenticated /\ context.auth.token.role = "admin"
\* the ids that have a Profile document
DocIds == {u \in Ids : profiles[u].exists}

\* C1: a callable invoked with claims whose role is not "admin" (editor,
\* viewer or no role), whatever the payload, ends at once with
\* permission-denied, and the step leaves the Identity Store (accounts,
\* their claims and status, the events they emit) and the Profile Store as
\* they were.
C1_NonAdminDeniedNoWrites ==
    [][\A s \in Slots :
        ( /\ Enters(s)
          /\ calls'[s].op \in Callables
          /\ NotAdminRole(calls'[s].request.context) )
        => /\ calls'[s].pc = "done"
           /\ calls'[s].reply.code = "permission-denied"
           /\ accounts' = accounts
           /\ profiles' = profiles
           /\ events' = events]_vars

C1_Witness ==
    \E s \in Slots :
        /\ calls[s].pc = "done"
        /\ calls[s].op = "deleteUser"
        /\ NotAdminRole(calls[s].request.context)
        /\ calls[s].request.context.auth.token.role = "editor"
        /\ calls[s].request.data = [uid |-> "u1"]
        /\ accounts["u1"].state = "active"
        /\ profiles["u1"].exists

\* C2: when setUserRole(uid, newRole) has returned its confirmation
\* "Successfully updated role to newRole for user uid.", the account's
\* claims and the Profile document of uid both hold role = newRole.
C2_DualWrite ==
    \A s \in Slots :
        ( /\ calls[s].pc = "done"
          /\ calls[s].op = "setUserRole"
          /\ calls[s].reply.code = "ok" )
        => LET uid == calls[s].request.data.uid
               r == calls[s].request.data.newRole IN
           /\ calls[s].reply.result.message =
                <<"Successfully updated role to ", r, " for user ", uid, ".">>
           /\ accounts[uid].state = "active"
           /\ accounts[uid].role = r
           /\ profiles[uid].exists
           /\ profiles[uid].role = r

C2_Witness ==
    \E s \in Slots :
        /\ calls[s].pc = "done"
        /\ calls[s].op = "setUserRole"
        /\ calls[s].reply.code = "ok"
        /\ calls[s].request.data = [uid |-> "u1", newRole |-> "editor"]
        /\ profiles["u1"].role = "editor"

\* the payload names no uid, or no role of the closed set
BadRolePayload(data) ==
    \/ ~Has(data, "uid")
    \/ data.uid = ""
    \/ ~Has(data, "newRole")
    \/ data.newRole \notin Roles

\* C3: setUserRole called by an admin with newRole missing or outside
\* {admin, editor, viewer}, or with uid missing or empty, ends at once with
\* invalid-argument, and the step leaves both stores as they were.
C3_RoleClosure ==
    [][\A s \in Slots :
        ( /\ Enters(s)
          /\ calls'[s].op = "setUserRole"
          /\ AdminRole(calls'[s].request.context)
          /\ BadRolePayload(calls'[s].request.data) )
        => /\ calls'[s].pc = "done"
           /\ calls'[s].reply.code = "invalid-argument"
           /\ accounts' = accounts
           /\ profiles' = profiles
           /\ events' = events]_vars

C3_Witness ==
    \E s \in Slots :
        /\ calls[s].pc = "done"
        /\ calls[s].op = "setUserRole"
        /\ AdminRole(calls[s].request.context)
        /\ calls[s].request.data = [uid |-> "u1", newRole |-> "superuser"]
        /\ calls[s].reply.code = "invalid-argument"
        /\ accounts["u1"].state = "active"
        /\ profiles["u1"].exists

\* C4: when onUserCreate has completed for an account, the account's role
\* claim is "viewer" and its Profile document exists with role "viewer"
\* and disabled = false, whatever the user record carries.
C4_DefaultRole ==
    \A s \in Slots :
        ( /\ calls[s].pc = "done"
          /\ calls[s].op = "onUserCreate"
          /\ calls[s].reply.code = "ok" )
        => LET uid == calls[s].request.user.uid IN
           /\ accounts[uid].role = "viewer"
           /\ profiles[uid].exists
           /\ profiles[uid].role = "viewer"
           /\ profiles[uid].disabled = FALSE

C4_Witness ==
    \E s \in Slots :
        /\ calls[s].pc = "done"
        /\ calls[s].op = "onUserCreate"
        /\ calls[s].reply.code = "ok"
        /\ accounts["u1"].role = "viewer"
        /\ profiles["u1"].exists

\* C5: a step in which onUserDelete(uid) completes without error leaves no
\* Profile document for uid and changes nothing else in either store; if
\* uid had no document the step changes neither store; and the handler
\* fails only when the store itself fails, never because the document is
\* missing.
C5_CascadeDelete ==
    [][\A s \in Slots :
        ( /\ Enters(s)
          /\ calls'[s].op = "onUserDelete" )
        => LET uid == calls'[s].request.user.uid IN
           /\ calls'[s].pc = "done"
           /\ accounts' = accounts
           /\ calls'[s].reply.code = "ok"
                => /\ ~profiles'[uid].exists
                   /\ \A v \in Ids \ {uid} : profiles'[v] = profiles[v]
           /\ ~profiles[uid].exists /\ calls'[s].reply.code = "ok"
                => profiles' = profiles
           /\ calls'[s].reply.code # "ok"
                => /\ calls'[s].reply.message \in Faults \ {"none"}
                   /\ profiles' = profiles]_vars

\* the deleted event is handled before the created one: there is nothing
\* to delete
C5_Witness ==
    \E s \in Slots :
        /\ calls[s].pc = "done"
        /\ calls[s].op = "onUserDelete"
        /\ calls[s].reply.code = "ok"
        /\ events["u1"].created = "pending"
        /\ ~profiles["u1"].exists

\* the texts the stores reject a call with
StoreErrors ==
    {"auth/invalid-uid", "auth/user-not-found", "invalid-data", "invalid-path",
     "NOT_FOUND", "UNAVAILABLE"}

\* C6: a callable that fails because a store call failed answers with
\* code internal and a fixed message: never with the store's error text.
C6_NoLeak ==
    \A s \in Slots :
        ( /\ calls[s].pc = "done"
          /\ calls[s].op \in Callables
          /\ AdminRole(calls[s].request.context)
          /\ calls[s].reply.code \notin {"ok", "invalid-argument"} )
        => /\ calls[s].reply.code = "internal"
           /\ calls[s].reply.message \notin StoreErrors

\* C7: a caller whose role is not "admin" and whose payload is malformed
\* (uid missing or empty, newRole missing or outside the closed set) gets
\* permission-denied, never invalid-argument.
C7_GateBeforeValidation ==
    \A s \in Slots :
        ( /\ calls[s].pc = "done"
          /\ calls[s].op \in Callables
          /\ NotAdminRole(calls[s].request.context)
          /\ \/ ~Has(calls[s].request.data, "uid")
             \/ calls[s].request.data.uid = ""
             \/ calls[s].op = "setUserRole" /\ BadRolePayload(calls[s].request.data) )
        => /\ calls[s].reply.code = "permission-denied"
           /\ calls[s].reply.code # "invalid-argument"

C7_Witness ==
    \E s \in Slots :
        /\ calls[s].pc = "done"
        /\ calls[s].op = "setUserRole"
        /\ NotAdminRole(calls[s].request.context)
        /\ calls[s].request.data = [newRole |-> "superuser"]
        /\ calls[s].reply.code = "permission-denied"

\* C8: when toggleUserStatus({uid, disabled}) called by an admin has
\* returned its confirmation, the account's login is enabled exactly when
\* disabled is false, and the Profile document's disabled is the boolean
\* passed in.
C8_StatusDualWrite ==
    \A s \in Slots :
        ( /\ calls[s].pc = "done"
          /\ calls[s].op = "toggleUserStatus"
          /\ calls[s].reply.code = "ok" )
        => LET uid == calls[s].request.data.uid
               disabled == calls[s].request.data.disabled IN
           /\ AdminRole(calls[s].request.context)
           /\ accounts[uid].state = "active"
           /\ accounts[uid].disabled = disabled
           /\ profiles[uid].exists
           /\ profiles[uid].disabled = disabled

C8_Witness ==
    \E s \in Slots :
        /\ calls[s].pc = "done"
        /\ calls[s].op = "toggleUserStatus"
        /\ calls[s].reply.code = "ok"
        /\ calls[s].request.data = [uid |-> "u1", disabled |-> TRUE]
        /\ accounts["u1"].disabled
        /\ profiles["u1"].disabled

\* C9: the set of ids that have a Profile document changes only in a step
\* of onUserCreate, which adds its account's id, or of onUserDelete, which
\* removes it; a successful deleteUser removes the account and leaves the
\* Profile Store as it was; no step of setUserRole, toggleUserStatus or
\* getAllUsers adds or removes a document.
C9_ProfileSetFrame ==
    [][/\ DocIds' # DocIds
          => \E s \in Slots :
                /\ calls'[s] # calls[s]
                /\ calls'[s].pc # "idle"
                /\ \/ /\ calls'[s].op = "onUserCreate"
                      /\ DocIds' = DocIds \cup {calls'[s].request.user.uid}
                   \/ /\ calls'[s].op = "onUserDelete"
                      /\ DocIds' = DocIds \ {calls'[s].request.user.uid}
       /\ \A s \in Slots :
            ( /\ Completes(s)
              /\ calls'[s].op = "deleteUser"
              /\ calls'[s].reply.code = "ok" )
            => /\ accounts[calls'[s].request.data.uid].state = "active"
               /\ accounts'[calls'[s].request.data.uid].state = "deleted"
               /\ profiles' = profiles]_vars

\* deleteUser has succeeded and the Profile document is still there
C9_Witness ==
    \E s \in Slots :
        /\ calls[s].pc = "done"
        /\ calls[s].op = "deleteUser"
        /\ calls[s].reply.code = "ok"
        /\ accounts["u1"].state = "deleted"
        /\ profiles["u1"].exists

\* C10: once a deleteUser(uid) has succeeded, the Profile document of uid
\* is eventually gone and from then on stays gone.
C10_CascadeEventually ==
    \A u \in Ids :
        (\E s \in Slots :
            /\ calls[s].pc = "done"
            /\ calls[s].op = "deleteUser"
            /\ calls[s].reply.code = "ok"
            /\ calls[s].request.data.uid = u)
        ~> [](~profiles[u].exists)

\* C11: a retry of a completed setUserRole, toggleUserStatus or
\* onUserDelete with the same arguments, nothing else having touched the
\* stores since: no step of the retry changes an account or a Profile
\* document, and the retry ends with the reply the first invocation gave.
C11_RetryIdempotent ==
    [][( /\ calls'["b"] # calls["b"]
         /\ calls'["b"].pc # "idle"
         /\ calls["a"].pc = "done"
         /\ calls["a"].reply.code \in {"ok", "permission-denied", "invalid-argument"} )
       => /\ calls'["b"].op = calls["a"].op
          /\ calls'["b"].request = calls["a"].request
          /\ accounts' = accounts
          /\ profiles' = profiles
          /\ calls'["b"].pc = "done" => calls'["b"].reply = calls["a"].reply]_vars

\* the retry of a successful toggleUserStatus(u1, true) has completed
C11_Witness ==
    /\ calls["a"].pc = "done"
    /\ calls["a"].op = "toggleUserStatus"
    /\ calls["a"].reply.code = "ok"
    /\ calls["a"].request.data = [uid |-> "u1", disabled |-> TRUE]
    /\ calls["b"] = calls["a"]
    /\ accounts["u1"].disabled
    /\ profiles["u1"].disabled

\* C12: the created event of an account that already has its Profile
\* document is delivered again (the document is there, so an earlier
\* delivery wrote it): the replayed onUserCreate leaves the role and the
\* disabled field of the document as they were immediately before the
\* replay, also when an admin has changed them since the first delivery.
\* (The document is written by the handler's first store call and by no
\* later one, so what that step leaves is what the replay leaves.)
C12_ReplayKeepsRole ==
    [][\A s \in Slots :
        ( /\ Enters(s)
          /\ calls'[s].op = "onUserCreate"
          /\ accounts[calls'[s].request.user.uid].state = "active"
          /\ profiles[calls'[s].request.user.uid].exists )
        => LET uid == calls'[s].request.user.uid IN
           /\ profiles'[uid].exists
           /\ profiles'[uid].role = profiles[uid].role
           /\ profiles'[uid].disabled = profiles[uid].disabled]_vars

\* C19: from the step that creates a Profile document to the step that
\* deletes it, no step changes the document's createdAt.
C19_CreatedAtOnce ==
    [][\A u \in Ids :
        (profiles[u].exists /\ profiles'[u].exists)
        => profiles'[u].createdAt = profiles[u].createdAt]_vars

\* C20: a callable invoked without any caller identity (context.auth is
\* undefined) ends at once with permission-denied and leaves both stores
\* as they were.
C20_NoAuthDenied ==
    [][\A s \in Slots :
        ( /\ Enters(s)
          /\ calls'[s].op \in Callables
          /\ ~calls'[s].request.context.authenticated )
        => /\ calls'[s].pc = "done"
           /\ calls'[s].reply.code = "permission-denied"
           /\ accounts' = accounts
           /\ profiles' = profiles
           /\ events' = events]_vars

\* C13: getAllUsers called by an admin, the query being answered, returns
\* one entry for every document of the collection and no other, each
\* document once, in the order of createdAt descending, every entry
\* carrying the document's fields and its createdAt as an ISO string; the
\* step leaves both stores as they were (also when the query fails).
C13_ListAll ==
    [][\A s \in Slots :
        ( /\ Enters(s)
          /\ calls'[s].op = "getAllUsers"
          /\ AdminRole(calls'[s].request.context) )
        => /\ calls'[s].pc = "done"
           /\ accounts' = accounts
           /\ profiles' = profiles
           /\ events' = events
           /\ calls'[s].reply.code \in {"ok", "internal"}
           /\ calls'[s].reply.code = "ok" =>
                LET users == calls'[s].reply.result.users
                    n == Len(users) IN
                /\ n = Cardinality(DocIds)
                /\ {users[i].uid : i \in 1..n} = DocIds
                /\ \A i \in 1..n :
                      /\ users[i].createdAt = ToISOString(profiles[users[i].uid].createdAt)
                      /\ users[i].role = profiles[users[i].uid].role
                      /\ users[i].disabled = profiles[users[i].uid].disabled
                /\ \A i, j \in 1..n :
                      i < j => profiles[users[i].uid].createdAt
                                  >= profiles[users[j].uid].createdAt]_vars

\* two documents written at different times, listed newest first
C13_Witness ==
    \E s \in Slots :
        /\ calls[s].pc = "done"
        /\ calls[s].op = "getAllUsers"
        /\ calls[s].reply.code = "ok"
        /\ Len(calls[s].reply.result.users) = 2
        /\ calls[s].reply.result.users[1].createdAt = ToISOString(2)
        /\ calls[s].reply.result.users[2].createdAt = ToISOString(1)
        /\ profiles["u1"].exists /\ profiles["u2"].exists

\* no instance is between two store calls
Quiescent == \A s \in Slots : calls[s].pc \in {"idle", "done"}

\* C15: two setUserRole calls on the same uid run at the same time; when
\* both have returned their confirmation and nothing is in progress, the
\* role in the Profile document of uid is the role in the account's claims.
C15_QuiescentRoleAgreement ==
    \A s, t \in Slots :
        ( /\ s # t
          /\ Quiescent
          /\ calls[s].pc = "done" /\ calls[s].op = "setUserRole"
          /\ calls[s].reply.code = "ok"
          /\ calls[t].pc = "done" /\ calls[t].op = "setUserRole"
          /\ calls[t].reply.code = "ok"
          /\ calls[s].request.data.uid = calls[t].request.data.uid )
        => LET uid == calls[s].request.data.uid IN
           ( accounts[uid].state = "active" /\ profiles[uid].exists )
           => profiles[uid].role = accounts[uid].role

\* C16: an account has been deleted, its created event and its deleted
\* event have both been handled, in whichever order they were delivered,
\* and nothing is in progress: there is no Profile document for its id.
C16_DeletedHasNoProfile ==
    \A u \in Ids :
        ( /\ Quiescent
          /\ accounts[u].state = "deleted"
          /\ events[u].created = "handled"
          /\ events[u].deleted = "handled" )
        => ~profiles[u].exists

\* the calls that write both stores
DualWriters == {"setUserRole", "toggleUserStatus"}

\* C17: setUserRole and toggleUserStatus undo nothing.  When the account
\* write has landed and the document update fails, the call ends with
\* internal, the account keeps what was written to it (the new role claim,
\* the new disabled flag) and the Profile Store is as it was; when the
\* account write fails, the call ends with internal and both stores are as
\* they were.
C17_NoRollback ==
    [][\A s \in Slots :
        /\ ( /\ Completes(s)
             /\ calls[s].pc = "update"
             /\ calls[s].op \in DualWriters
             /\ calls'[s].reply.code # "ok" )
           => LET data == calls[s].request.data IN
              /\ calls'[s].reply.code = "internal"
              /\ accounts' = accounts
              /\ profiles' = profiles
              /\ calls[s].op = "setUserRole"
                    => accounts'[data.uid].role = data.newRole
              /\ (calls[s].op = "toggleUserStatus" /\ Has(data, "disabled"))
                    => accounts'[data.uid].disabled = data.disabled
        /\ ( /\ Enters(s)
             /\ calls'[s].op \in DualWriters
             /\ calls'[s].pc = "done"
             /\ calls'[s].reply.code \notin {"permission-denied", "invalid-argument"} )
           => /\ calls'[s].reply.code = "internal"
              /\ accounts' = accounts
              /\ profiles' = profiles]_vars

\* the account of u1 has been disabled and the update of its document has
\* failed
C17_Witness ==
    \E s \in Slots :
        /\ calls[s].pc = "done"
        /\ calls[s].op = "toggleUserStatus"
        /\ calls[s].request.data = [uid |-> "u1", disabled |-> TRUE]
        /\ calls[s].reply = HttpsError("internal", "UNAVAILABLE")
        /\ accounts["u1"].disabled
        /\ profiles["u1"].exists
        /\ ~profiles["u1"].disabled

\* C18, as claimed: onUserCreate writes the viewer claim before it creates
\* the Profile document: an account that has its Profile document has a
\* role claim, and an onUserCreate that failed without leaving a document
\* has left the viewer claim.
C18_ClaimFirst ==
    /\ \A u \in Ids :
          (accounts[u].state = "active" /\ profiles[u].exists)
          => accounts[u].role # Undefined
    /\ \A s \in Slots :
          ( /\ calls[s].pc = "done"
            /\ calls[s].op = "onUserCreate"
            /\ calls[s].reply.code = "error"
            /\ accounts[calls[s].request.user.uid].state = "active"
            /\ ~profiles[calls[s].request.user.uid].exists )
          => accounts[calls[s].request.user.uid].role = "viewer"

\* C18, amended: onUserCreate creates the Profile document first and
\* writes the viewer claim second.  Its first step writes the document
\* (role viewer, disabled false) and no account; if that write fails the
\* handler ends there, with both stores as they were.  Its second step
\* writes the claim and no document; if that write fails the accounts are
\* as they were and the document stays.
C18_ProfileFirst ==
    [][\A s \in Slots :
        /\ ( Enters(s) /\ calls'[s].op = "onUserCreate" )
           => LET uid == calls'[s].request.user.uid IN
              /\ accounts' = accounts
              /\ calls'[s].pc = "done"
                    => /\ calls'[s].reply.code = "error"
                       /\ profiles' = profiles
              /\ calls'[s].pc # "done"
                    => /\ profiles'[uid].exists
                       /\ profiles'[uid].role = "viewer"
                       /\ profiles'[uid].disabled = FALSE
        /\ ( Completes(s) /\ calls[s].pc = "setCustomUserClaims" )
           => LET uid == calls[s].request.user.uid IN
              /\ profiles' = profiles
              /\ calls'[s].reply.code = "ok"
                    => accounts'[uid].role = "viewer"
              /\ calls'[s].reply.code # "ok"
                    => accounts' = accounts]_vars

\* the document of the new account u1 is written, its claim is not yet
C18_Witness ==
    \E s \in Slots :
        /\ At(s, "onUserCreate", "setCustomUserClaims")
        /\ calls[s].request.user.uid = "u1"
        /\ accounts["u1"].state = "active"
        /\ accounts["u1"].role = Undefined
        /\ profiles["u1"].exists
        /\ profiles["u1"].role = "viewer"

\* Cache Storage holds an entry that matches the request
Cached(request) ==
    /\ request.method = "GET"
    /\ \E n \in DOMAIN cacheStorage :
          cacheStorage[n].exists /\ request.url \in cacheStorage[n].keys

\* C14: the worker answers a fetch event cache-first.  If Cache Storage
\* holds a match for the request, the answer is that cached entry and the
\* network is not asked; otherwise the network is asked and its response
\* is the answer; if the network fails, the answer is the cached
\* '/offline.html'.  Answering changes no cache.
C14_CacheFirst ==
    [][(fetchEvent' # fetchEvent)
       => LET request == fetchEvent'.request
              response == fetchEvent'.response IN
          /\ cacheStorage' = cacheStorage
          /\ Cached(request)
                => /\ fetchEvent'.network = "none"
                   /\ response.source = "cache"
                   /\ response.url = request.url
                   /\ request.url \in cacheStorage[response.cacheName].keys
          /\ ~Cached(request)
                => /\ fetchEvent'.network \in {"answered", "failed"}
                   /\ fetchEvent'.network = "answered"
                         => response = [source |-> "network", url |-> request.url,
                                        method |-> request.method]
                   /\ fetchEvent'.network = "failed"
                         => /\ response.source = "cache"
                            /\ response.url = "/offline.html"
                            /\ "/offline.html" \in cacheStorage[response.cacheName].keys]_vars

\* a page that is not cached was requested while the network was down
C14_Witness ==
    /\ fetchEvent.handled
    /\ fetchEvent.request = [url |-> "/post.html", method |-> "GET"]
    /\ fetchEvent.network = "failed"
    /\ fetchEvent.response.source = "cache"
    /\ fetchEvent.response.url = "/offline.html"

====
